---- MODULE Spec2Model ----
(***************************************************************************)
(* Model of the portfolio optimization engine of FinanceBot Pro            *)
(* (backend/server.py): PortfolioOptimizer and the optimize-portfolio and  *)
(* efficient-frontier endpoints.                                           *)
(*                                                                         *)
(* Numbers are fixed point.  A weight w is the integer 300*w, so that the  *)
(* bounds 0.01 .. 0.80 and the equal weights 1/2, 1/3, 1/4 are exact.      *)
(* Annualized mean returns are integers in percent, covariances in        *)
(* percent^2; a portfolio return or volatility is therefore in units of    *)
(* percent/300.  A float that numpy would make nan or inf is carried as a  *)
(* tagged record.                                                          *)
(*                                                                         *)
(* yfinance (the market-data provider) and scipy.optimize.minimize (the    *)
(* solver) are libraries outside the repository.  The provider is a        *)
(* nondeterministic choice of outcome; the solver is modelled by the       *)
(* contract of SLSQP: success means the returned x satisfies the bounds    *)
(* and the equality constraints it was given and minimizes the objective   *)
(* over them; failure returns an iterate inside the bounds that need not   *)
(* satisfy the constraints.                                                *)
(***************************************************************************)
EXTENDS Integers, Sequences, FiniteSets, TLC

\* ---------------------------------------------------------------- bounds
MaxSymbols == 3
MaxPoints == 3
MaxSolverFailures == 1
MaxClients == 2
MaxRequests == 2
MaxChats == 7
MaxHistory == 2
MaxRecords == 4

SymbolNames == {"A", "B", "C"}
Amounts == {1000, 2500}
Methods == {"sharpe", "min_volatility", "max_return", "other"}
RiskTolerances == {"conservative", "moderate", "aggressive", "other"}

\* ------------------------------------------------------ program constants
One == 300                  \* the 1 of the budget constraint sum(x) - 1
RiskFreeRate == 2           \* self.risk_free_rate = 0.02, in percent
MockRows == 252             \* periods=252
MockBasePrice == 100        \* prices = [100]
NumPortfoliosDefault == 10  \* num_portfolios: int = 10
MinFrontierSymbols == 2     \* len(symbol_list) < 2

\* ------------------------------------------------------------- arithmetic
RECURSIVE SumTo(_, _)
SumTo(f, n) == IF n = 0 THEN 0 ELSE f[n] + SumTo(f, n - 1)

SumSeq(s) == SumTo(s, Len(s))

RECURSIVE ISqrtIn(_, _, _)
ISqrtIn(v, lo, hi) ==
    IF lo >= hi THEN lo
    ELSE LET mid == (lo + hi + 1) \div 2
         IN  IF mid * mid <= v THEN ISqrtIn(v, mid, hi) ELSE ISqrtIn(v, lo, mid - 1)

\* np.sqrt on a non-negative value, rounded down to the fixed-point grid
ISqrt(v) == ISqrtIn(v, 0, 40000)

Num(v) == [k |-> "num", v |-> v]
NaN == [k |-> "nan", v |-> 0]
PosInf == [k |-> "inf", v |-> 0]
NegInf == [k |-> "ninf", v |-> 0]
IsNum(a) == a.k = "num"

\* float division as numpy does it: x/0 is +-inf, 0/0 and nan/x are nan
FloatDiv(a, b) ==
    IF ~IsNum(a) \/ ~IsNum(b) THEN NaN
    ELSE IF b.v = 0
         THEN (IF a.v > 0 THEN PosInf ELSE IF a.v < 0 THEN NegInf ELSE NaN)
         ELSE Num((a.v * 1000) \div b.v)

\* a <= b on floats: false as soon as a nan is involved
FloatLeq(a, b) ==
    /\ a.k # "nan" /\ b.k # "nan"
    /\ \/ a.k = "ninf"
       \/ b.k = "inf"
       \/ (IsNum(a) /\ IsNum(b) /\ a.v <= b.v)

FloatNeg(a) ==
    IF a.k = "num" THEN Num(0 - a.v)
    ELSE IF a.k = "inf" THEN NegInf
    ELSE IF a.k = "ninf" THEN PosInf
    ELSE NaN

\* ---------------------------------------------------- process-wide state
VARIABLES
    risk_free_rate,     \* optimizer.risk_free_rate of the shared PortfolioOptimizer
    rng                 \* the state of numpy's global random generator

\* history: an optimize call that returned earlier in the life of the process
VARIABLES earlier

\* the database and the coroutines of the handlers that await it
VARIABLES
    chat_history,       \* db.chat_history: the documents in insertion order
    portfolios,         \* db.portfolios: the documents in insertion order
    clock,              \* datetime.utcnow(), in ticks
    uuids,              \* how many uuid.uuid4() were drawn
    handler,            \* per client connection: the coroutine serving its request
    received,           \* how many requests were taken
    chatLog             \* history: the chat requests that returned, in order

service == <<chat_history, portfolios, clock, uuids, handler, received, chatLog>>

\* the global MetricsCollector
VARIABLES
    request_metrics,    \* deque(maxlen=max_history) of RequestMetrics
    ai_metrics,         \* deque(maxlen=max_history) of AIMetrics
    error_counts,       \* defaultdict(int) by error text
    endpoint_stats,     \* defaultdict by "METHOD endpoint"
    recorded            \* history: the record_request calls since the last reset

collector == <<request_metrics, ai_metrics, error_counts, endpoint_stats, recorded>>

\* what the handlers of the optimizer endpoints never touch
aside == <<earlier, service, collector>>

\* the generator as the interpreter starts it, and as np.random.seed(42) and
\* the draws after it leave it
OsEntropy == "os_entropy"
Seed42 == "seed_42"

\* ------------------------------------------------------------ price data
RECURSIVE Dedup(_)
\* the columns of a frame built from a dict keyed by symbol: each symbol once
Dedup(s) ==
    IF s = << >> THEN << >>
    ELSE LET d == Dedup(SubSeq(s, 1, Len(s) - 1))
             x == s[Len(s)]
         IN  IF \E i \in 1..Len(d) : d[i] = x THEN d ELSE Append(d, x)

\* return statistics of the provider's series, per symbol (percent, percent^2)
\* scenario 1: three assets of growing return and risk; scenario 2: flat
\* prices; scenario 3: the less risky an asset, the higher its return
ProviderScenarios == {1, 2, 3}
ProviderMean(scen, sym) ==
    IF scen = 2 THEN 0
    ELSE IF scen = 3 THEN (IF sym = "A" THEN 14 ELSE IF sym = "B" THEN 10 ELSE 6)
    ELSE IF sym = "A" THEN 6 ELSE IF sym = "B" THEN 10 ELSE 14
ProviderVar(scen, sym) ==
    IF scen = 2 THEN 0
    ELSE IF sym = "A" THEN 100 ELSE IF sym = "B" THEN 400 ELSE 900

\* sample statistics of the i-th series drawn after np.random.seed(42):
\* they depend on the position of the symbol, not on its name
MockMean(i) == 20 + 4 * i
MockVar(i) == 900 + 50 * i

\* what the try block of get_historical_data can do
ProviderOutcomes ==
    {[raised |-> TRUE, rows |-> 0, scen |-> 1]}
    \cup {[raised |-> FALSE, rows |-> r, scen |-> 1] : r \in {0, 2}}
    \cup {[raised |-> FALSE, rows |-> MockRows, scen |-> s] : s \in ProviderScenarios}

get_historical_data(symbols, outcome) ==
    IF outcome.raised
    THEN [columns |-> Dedup(symbols), rows |-> MockRows,
          first |-> MockBasePrice, synthetic |-> TRUE, scen |-> 0]
    ELSE [columns |-> Dedup(symbols), rows |-> outcome.rows,
          first |-> 0, synthetic |-> FALSE, scen |-> outcome.scen]

\* the global generator after get_historical_data: its except branch seeds it
GeneratorAfter(outcome, generator) == IF outcome.raised THEN Seed42 ELSE generator

\* pct_change().dropna() leaves rows-1 observations; the mean of none is nan,
\* the sample covariance of fewer than two is nan
calculate_returns_and_cov(price_data) ==
    LET n == Len(price_data.columns)
    IN  [n |-> n,
         meanOk |-> price_data.rows >= 2,
         covOk |-> price_data.rows >= 3,
         mean |-> [i \in 1..n |->
                     IF price_data.synthetic THEN MockMean(i)
                     ELSE ProviderMean(price_data.scen, price_data.columns[i])],
         var |-> [i \in 1..n |->
                     IF price_data.synthetic THEN MockVar(i)
                     ELSE ProviderVar(price_data.scen, price_data.columns[i])]]

\* ------------------------------------------------------ portfolio metrics
\* mean_returns * weights raises when the lengths differ
StatsRaises(weights, st) == Len(weights) # st.n

portfolio_stats(weights, st) ==
    LET n == st.n
        ret == IF st.meanOk
               THEN Num(SumTo([i \in 1..n |-> st.mean[i] * weights[i]], n))
               ELSE NaN
        vol == IF st.covOk
               THEN Num(ISqrt(SumTo([i \in 1..n |-> weights[i] * st.var[i] * weights[i]], n)))
               ELSE NaN
        excess == IF IsNum(ret) THEN Num(ret.v - risk_free_rate * One) ELSE NaN
    IN  [ret |-> ret, vol |-> vol, sharpe |-> FloatDiv(excess, vol)]

\* the Sharpe ratio returned without the minus sign
positive_sharpe_ratio(weights, st) == portfolio_stats(weights, st).sharpe

negative_sharpe_ratio(weights, st) == FloatNeg(portfolio_stats(weights, st).sharpe)
portfolio_volatility(weights, st) == portfolio_stats(weights, st).vol
negative_portfolio_return(weights, st) == FloatNeg(portfolio_stats(weights, st).ret)

Objective(name, weights, st) ==
    IF name = "negative_sharpe_ratio" THEN negative_sharpe_ratio(weights, st)
    ELSE IF name = "portfolio_volatility" THEN portfolio_volatility(weights, st)
    ELSE negative_portfolio_return(weights, st)

\* ------------------------------------------------------------ the solver
\* every risk tolerance given the bounds of the aggressive one
RiskBoundsAllAggressive(risk_tolerance) == [lo |-> 3, hi |-> 240]

\* the aggressive bounds for "aggressive" alone, the moderate ones otherwise
RiskBoundsElseModerate(risk_tolerance) ==
    IF risk_tolerance = "conservative" THEN [lo |-> 15, hi |-> 120]
    ELSE IF risk_tolerance = "aggressive" THEN [lo |-> 3, hi |-> 240]
    ELSE [lo |-> 6, hi |-> 180]

\* bounds = tuple((lo, hi) for _ in range(n_assets)), by risk tolerance
RiskBounds(risk_tolerance) ==
    IF risk_tolerance = "conservative" THEN [lo |-> 15, hi |-> 120]
    ELSE IF risk_tolerance = "moderate" THEN [lo |-> 6, hi |-> 180]
    ELSE [lo |-> 3, hi |-> 240]

\* bounds = tuple((0.01, 0.7) for _ in range(n_assets))
FrontierBounds == [lo |-> 3, hi |-> 210]

\* the solver called without the budget constraint
NoBudgetConstraint == {}

\* constraints = ({'type': 'eq', 'fun': lambda x: np.sum(x) - 1})
BudgetConstraint == {[type |-> "budget", ok |-> TRUE, num |-> 0, den |-> 1]}

\* the budget constraint and np.sum(mean_returns * x) - target_return = 0,
\* the target being the fraction num/den, or nan
ConstraintsWithReturn(target) ==
    {[type |-> "budget", ok |-> TRUE, num |-> 0, den |-> 1],
     [type |-> "return", ok |-> target.ok, num |-> target.num, den |-> target.den]}

\* the initial guess drawn from the global generator: it depends on the state
\* in which earlier requests left the generator
InitialGuessFromGenerator(n_assets) ==
    IF rng = OsEntropy THEN [i \in 1..n_assets |-> One \div n_assets]
    ELSE [i \in 1..n_assets |-> IF i = 1 THEN One - (n_assets - 1) * 90 ELSE 90]

\* initial_guess = np.array([1/n_assets] * n_assets)
InitialGuess(n_assets) == [i \in 1..n_assets |-> One \div n_assets]

\* the second method compared with "min_vol": min_volatility falls to the else
ObjectiveForMisspelt(method) ==
    IF method = "sharpe" THEN "negative_sharpe_ratio"
    ELSE IF method = "min_vol" THEN "portfolio_volatility"
    ELSE "negative_portfolio_return"

\* objective = ... by method
ObjectiveFor(method) ==
    IF method = "sharpe" THEN "negative_sharpe_ratio"
    ELSE IF method = "min_volatility" THEN "portfolio_volatility"
    ELSE "negative_portfolio_return"

Clip(w, b) == IF w < b.lo THEN b.lo ELSE IF w > b.hi THEN b.hi ELSE w

\* the weights the model lets the solver put on one asset
Levels(n, b) ==
    {b.lo, b.hi} \cup {w \in b.lo..b.hi : w % 30 = 0 \/ w = One \div n}

\* vectors inside the bounds that use the whole budget
BudgetPoints(n, b) ==
    {x \in {Append(p, One - SumSeq(p)) : p \in [1..(n - 1) -> Levels(n, b)]} :
        x[n] >= b.lo /\ x[n] <= b.hi}

\* vectors inside the bounds a failed run can stop at: the clipped initial
\* guess and the two extreme corners of the box
Iterates(n, b, x0) ==
    {[i \in 1..n |-> Clip(x0[i], b)], [i \in 1..n |-> b.lo], [i \in 1..n |-> b.hi]}

\* the budget constraint given as an inequality: np.sum(x) - 1 <= 0
SatisfiesBudgetAtMost(x, c, st) ==
    IF c.type = "budget" THEN SumSeq(x) <= One
    ELSE /\ st.meanOk /\ c.ok
         /\ c.den * SumTo([i \in 1..st.n |-> st.mean[i] * x[i]], st.n) = c.num

\* whether x meets a constraint of the constraints tuple
Satisfies(x, c, st) ==
    IF c.type = "budget" THEN SumSeq(x) = One
    ELSE /\ st.meanOk /\ c.ok
         /\ c.den * SumTo([i \in 1..st.n |-> st.mean[i] * x[i]], st.n) = c.num

Feasible(n, b, constraints, x0, st) ==
    {x \in BudgetPoints(n, b) \cup Iterates(n, b, x0) :
        \A c \in constraints : Satisfies(x, c, st)}

\* squared distance of x from the initial guess
Distance(x, x0) == SumTo([i \in 1..Len(x0) |-> (x[i] - x0[i]) * (x[i] - x0[i])], Len(x0))

\* minimize(objective, x0, args=(mean_returns, cov_matrix), method='SLSQP',
\*          bounds=bounds, constraints=constraints): the results it can return.
\* Among equal minima the run that started at x0 stops at one nearest to x0.
Minimize(objective, x0, st, b, constraints) ==
    LET n == Len(x0)
        F == Feasible(n, b, constraints, x0, st)
        vals == {Objective(objective, x, st) : x \in F}
        minimal == {v \in vals : IsNum(v) /\ \A w \in vals : FloatLeq(v, w)}
        best == {x \in F : Objective(objective, x, st) \in minimal}
        nearest == {x \in best : \A y \in best : Distance(x, x0) <= Distance(y, x0)}
    IN  {[success |-> TRUE, x |-> x] : x \in nearest}
        \cup {[success |-> FALSE, x |-> x] : x \in Iterates(n, b, x0)}

\* ------------------------------------------------------------- the state
VARIABLES
    pc,                 \* position in the request being served
    req,                \* the request
    price_data,         \* the frame get_historical_data returned
    result,             \* what the last minimize call returned
    raised,             \* the exception caught in the running function
    optimized,          \* the dict optimize_portfolio returned
    min_vol_return,     \* return of the minimum volatility endpoint
    target_returns,     \* np.linspace(min_vol_return, max_ret_return, n)
    efficient_frontier, \* the list generate_efficient_frontier builds
    generated,          \* what generate_efficient_frontier returned
    response,           \* the HTTP response of the request
    analysis,           \* the data dict analyze_portfolio builds
    providerLog,        \* history: outcomes of the provider queries
    solverLog           \* history: the minimize calls of the request

vars == <<aside, risk_free_rate, rng, pc, req, price_data, result, raised, optimized,
          min_vol_return, target_returns, efficient_frontier, generated, response,
          analysis, providerLog, solverLog>>

NoRequest == [endpoint |-> "none", symbols |-> << >>, investment_amount |-> 0,
              optimization_method |-> "", risk_tolerance |-> "", num_portfolios |-> 0]
NoData == [columns |-> << >>, rows |-> 0, first |-> 0, synthetic |-> FALSE, scen |-> 0]
NoResult == [success |-> FALSE, x |-> << >>]
NoOptimized == [returned |-> FALSE, symbols |-> << >>, weights |-> << >>,
                expected_return |-> NaN, volatility |-> NaN, sharpe_ratio |-> NaN,
                allocation |-> << >>]
NotGenerated == [returned |-> FALSE, propagated |-> FALSE, points |-> << >>]
NoResponse == [status |-> 0, detail |-> "", weights |-> << >>,
               allocation |-> << >>, efficient_frontier |-> << >>]

NoAnalysis == [built |-> FALSE, asset_metrics |-> << >>]

NoEarlier == [seen |-> FALSE]

\* the connections the event loop serves at one time, whose awaits interleave
Clients == 1..MaxClients

\* a connection with no request on it
Idle == [kind |-> "idle", pc |-> "idle"]

Init ==
    /\ earlier = NoEarlier
    /\ chat_history = << >>
    /\ portfolios = << >>
    /\ clock = 0
    /\ uuids = 0
    /\ handler = [c \in Clients |-> Idle]
    /\ received = 0
    /\ chatLog = << >>
    /\ risk_free_rate = RiskFreeRate
    /\ rng = OsEntropy
    /\ pc = "idle"
    /\ req = NoRequest
    /\ price_data = NoData
    /\ result = NoResult
    /\ raised = "none"
    /\ optimized = NoOptimized
    /\ min_vol_return = NaN
    /\ target_returns = << >>
    /\ efficient_frontier = << >>
    /\ generated = NotGenerated
    /\ response = NoResponse
    /\ analysis = NoAnalysis
    /\ providerLog = << >>
    /\ solverLog = << >>
    /\ request_metrics = << >>
    /\ ai_metrics = << >>
    /\ error_counts = << >>
    /\ endpoint_stats = << >>
    /\ recorded = << >>

\* the symbol lists of the requests, up to a renaming of the symbols: the
\* first symbol of a list is A
SymbolLists ==
    {s \in UNION {[1..n -> SymbolNames] : n \in 0..MaxSymbols} :
        s # << >> => s[1] = "A"}

\* a request is taken when no other is being served: the handlers have no
\* await, so the event loop runs each of them to its end
Fresh(r, start) ==
    /\ pc = "idle"
    /\ pc' = start
    /\ req' = r
    /\ UNCHANGED <<price_data, result, raised, optimized, min_vol_return,
                   target_returns, efficient_frontier, generated, response,
                   providerLog, solverLog>>
    /\ UNCHANGED <<aside, risk_free_rate, rng, analysis>>

\* the response is sent and the objects of the request are discarded
Complete ==
    /\ pc = "done"
    /\ pc' = "idle"
    /\ req' = NoRequest
    /\ price_data' = NoData
    /\ result' = NoResult
    /\ raised' = "none"
    /\ optimized' = NoOptimized
    /\ min_vol_return' = NaN
    /\ target_returns' = << >>
    /\ efficient_frontier' = << >>
    /\ generated' = NotGenerated
    /\ response' = NoResponse
    /\ analysis' = NoAnalysis
    /\ providerLog' = << >>
    /\ solverLog' = << >>
    /\ UNCHANGED <<aside, risk_free_rate, rng>>

\* the method and risk tolerance of the requests: each value of one with the
\* default of the other (risk_tolerance = "moderate", optimization_method = "sharpe")
MethodsAndRisks ==
    {mr \in Methods \X RiskTolerances : mr[1] = "sharpe" \/ mr[2] = "moderate"}

\* POST /api/optimize-portfolio arrives, its body drawn from the given sets
ReceiveOptimizeFrom(lists, amounts, methodsAndRisks) ==
    \E symbols \in lists, amount \in amounts, mr \in methodsAndRisks :
        LET method == mr[1]
            risk == mr[2]
        IN
        Fresh([endpoint |-> "optimize", symbols |-> symbols,
               investment_amount |-> amount, optimization_method |-> method,
               risk_tolerance |-> risk, num_portfolios |-> NumPortfoliosDefault],
              "opt_fetch")

ReceiveOptimize == ReceiveOptimizeFrom(SymbolLists, Amounts, MethodsAndRisks)

\* optimize_portfolio: price_data = self.get_historical_data(symbols)
OptFetch ==
    /\ pc = "opt_fetch"
    /\ \E outcome \in ProviderOutcomes :
        /\ price_data' = get_historical_data(req.symbols, outcome)
        /\ providerLog' = Append(providerLog, outcome)
        /\ rng' = GeneratorAfter(outcome, rng)
    /\ pc' = "opt_solve"
    /\ UNCHANGED <<req, result, raised, optimized, min_vol_return, target_returns,
                   efficient_frontier, generated, response, solverLog>>
    /\ UNCHANGED <<aside, risk_free_rate, analysis>>

\* solves of the request so far that failed although they could have succeeded
Failures(log) ==
    Cardinality({i \in 1..Len(log) : log[i].solvable /\ ~log[i].success})

\* the results in all that a request whose earlier calls are in log can get
\* and the entry each leaves in the log: a call that could succeed fails at
\* most MaxSolverFailures times in a request
Outcomes(phase, x0, b, all, log) ==
    LET solvable == \E q \in all : q.success
        budget == Failures(log) < MaxSolverFailures
    IN  {[result |-> r,
          entry |-> [phase |-> phase, n |-> Len(x0), lo |-> b.lo, hi |-> b.hi,
                     x0 |-> x0, solvable |-> solvable, success |-> r.success,
                     x |-> IF r.success THEN r.x ELSE << >>]] :
            r \in {q \in all : q.success \/ ~solvable \/ budget}}

\* one minimize call of a request
Solve(phase, objective, x0, st, b, constraints, log) ==
    Outcomes(phase, x0, b, Minimize(objective, x0, st, b, constraints), log)

\* optimize_portfolio: statistics, bounds, initial guess, objective, minimize
OptSolve ==
    /\ pc = "opt_solve"
    /\ LET st == calculate_returns_and_cov(price_data)
           n_assets == Len(req.symbols)
           constraints == BudgetConstraint
           bounds == RiskBounds(req.risk_tolerance)
           objective == ObjectiveFor(req.optimization_method)
       IN  IF n_assets = 0
           THEN /\ raised' = "ZeroDivisionError"
                /\ UNCHANGED <<result, solverLog>>
           ELSE IF StatsRaises(InitialGuess(n_assets), st)
           THEN /\ raised' = "ValueError"
                /\ UNCHANGED <<result, solverLog>>
           ELSE \E o \in Solve("optimize", objective, InitialGuess(n_assets), st,
                               bounds, constraints, solverLog) :
                /\ result' = o.result
                /\ solverLog' = Append(solverLog, o.entry)
                /\ UNCHANGED raised
    /\ pc' = "opt_return"
    /\ UNCHANGED <<req, price_data, optimized, min_vol_return, target_returns,
                   efficient_frontier, generated, response, providerLog>>
    /\ UNCHANGED <<aside, risk_free_rate, rng, analysis>>

Range(s) == {s[i] : i \in 1..Len(s)}

\* {symbol: value for symbol, value in zip(symbols, values)}: a later pair
\* replaces an earlier one with the same symbol
DictFromZip(symbols, values) ==
    [s \in Range(symbols) |->
        values[CHOOSE i \in 1..Len(symbols) :
                  /\ symbols[i] = s
                  /\ \A j \in 1..Len(symbols) : symbols[j] = s => j <= i]]

\* the dict optimize_portfolio returns when result.success
OptimizeResult(symbols, r, st) ==
    LET ps == portfolio_stats(r.x, st)
    IN  [returned |-> TRUE, symbols |-> symbols, weights |-> r.x,
         expected_return |-> ps.ret, volatility |-> ps.vol, sharpe_ratio |-> ps.sharpe,
         allocation |-> DictFromZip(symbols, r.x)]

\* optimize_portfolio returning whatever x the solver left, as the endpoint
\* solves of the frontier do
OptimizeReturnsUnchecked(exc, r) == exc = "none"

\* whether optimize_portfolio reaches its return statement
OptimizeReturns(exc, r) == exc = "none" /\ r.success

ErrorResponse(code, detail) ==
    [status |-> code, detail |-> detail, weights |-> << >>,
     allocation |-> << >>, efficient_frontier |-> << >>]

\* optimize_portfolio: return the result, or raise HTTPException(500), which the
\* endpoint's except Exception turns into its own HTTPException(500)
OptReturn ==
    /\ pc = "opt_return"
    /\ IF OptimizeReturns(raised, result)
       THEN /\ optimized' = OptimizeResult(req.symbols, result,
                                           calculate_returns_and_cov(price_data))
            /\ pc' = "gen_fetch"
            /\ UNCHANGED <<raised, response>>
       ELSE /\ raised' = "HTTPException"
            /\ response' = ErrorResponse(500, "Portfolio optimization failed")
            /\ pc' = "done"
            /\ UNCHANGED optimized
    /\ UNCHANGED <<req, price_data, result, min_vol_return, target_returns,
                   efficient_frontier, generated, providerLog, solverLog>>
    /\ UNCHANGED <<aside, risk_free_rate, rng, analysis>>

\* ------------------------------------------- generate_efficient_frontier
\* np.linspace(a, b, num): num equally spaced values from a to b inclusive,
\* each kept as an exact fraction; nan when an end is nan
Linspace(a, b, num) ==
    LET den == IF num > 1 THEN num - 1 ELSE 1
    IN  [k \in 1..num |->
            IF IsNum(a) /\ IsNum(b)
            THEN [ok |-> TRUE, num |-> a.v * den + (k - 1) * (b.v - a.v), den |-> den]
            ELSE [ok |-> FALSE, num |-> 0, den |-> den]]

\* GET /api/efficient-frontier/{symbols} arrives: the handler splits the path
\* and raises HTTPException(400) inside its own try, whose except Exception
\* catches it and raises HTTPException(500) in its place
FrontierRejection == ErrorResponse(500, "Efficient frontier calculation failed: 400")

ReceiveFrontier ==
    \E symbol_list \in SymbolLists \ {<< >>} :
        /\ pc = "idle"
        /\ req' = [endpoint |-> "frontier", symbols |-> symbol_list,
                   investment_amount |-> 0, optimization_method |-> "",
                   risk_tolerance |-> "", num_portfolios |-> NumPortfoliosDefault]
        /\ IF Len(symbol_list) < MinFrontierSymbols
           THEN /\ raised' = "HTTPException"
                /\ response' = FrontierRejection
                /\ pc' = "done"
           ELSE /\ pc' = "gen_fetch"
                /\ UNCHANGED <<raised, response>>
        /\ UNCHANGED <<price_data, result, optimized, min_vol_return, target_returns,
                       efficient_frontier, generated, providerLog, solverLog>>
        /\ UNCHANGED <<aside, risk_free_rate, rng, analysis>>

\* optimizer.generate_efficient_frontier(symbols, num_portfolios) called directly
CallGenerate ==
    \E symbols \in SymbolLists, num_portfolios \in 1..MaxPoints :
        Fresh([endpoint |-> "generate", symbols |-> symbols,
               investment_amount |-> 0, optimization_method |-> "",
               risk_tolerance |-> "", num_portfolios |-> num_portfolios],
              "gen_fetch")

\* generate_efficient_frontier: price_data = self.get_historical_data(symbols)
GenFetch ==
    /\ pc = "gen_fetch"
    /\ \E outcome \in ProviderOutcomes :
        /\ price_data' = get_historical_data(req.symbols, outcome)
        /\ providerLog' = Append(providerLog, outcome)
        /\ rng' = GeneratorAfter(outcome, rng)
    /\ pc' = "gen_min_vol"
    /\ UNCHANGED <<req, result, raised, optimized, min_vol_return, target_returns,
                   efficient_frontier, generated, response, solverLog>>
    /\ UNCHANGED <<aside, risk_free_rate, analysis>>

\* the return of an endpoint taken only from a solve that succeeded
EndpointReturnChecked(r, st) == IF r.success THEN portfolio_stats(r.x, st).ret ELSE NaN

\* min_vol_return, _, _ = self.portfolio_stats(min_vol_result.x, ...), and
\* the same for max_ret_result: result.success is not read
EndpointReturn(r, st) == portfolio_stats(r.x, st).ret

\* generate_efficient_frontier: statistics, initial guess, minimum volatility
\* solve; its x is used whether or not the solve succeeded
GenMinVol ==
    /\ pc = "gen_min_vol"
    /\ LET st == calculate_returns_and_cov(price_data)
           n_assets == Len(req.symbols)
           x0 == InitialGuess(n_assets)
       IN  IF n_assets = 0
           THEN /\ raised' = "ZeroDivisionError"
                /\ pc' = "gen_return"
                /\ UNCHANGED <<min_vol_return, solverLog>>
           ELSE IF StatsRaises(x0, st)
           THEN /\ raised' = "ValueError"
                /\ pc' = "gen_return"
                /\ UNCHANGED <<min_vol_return, solverLog>>
           ELSE \E min_vol \in Solve("min_vol", "portfolio_volatility", x0, st,
                                     FrontierBounds, BudgetConstraint, solverLog) :
                /\ min_vol_return' = EndpointReturn(min_vol.result, st)
                /\ solverLog' = Append(solverLog, min_vol.entry)
                /\ pc' = "gen_max_ret"
                /\ UNCHANGED raised
    /\ UNCHANGED <<req, price_data, result, optimized, target_returns,
                   efficient_frontier, generated, response, providerLog>>
    /\ UNCHANGED <<aside, risk_free_rate, rng, analysis>>

\* generate_efficient_frontier: maximum return solve and the target returns
GenMaxRet ==
    /\ pc = "gen_max_ret"
    /\ LET st == calculate_returns_and_cov(price_data)
           x0 == InitialGuess(Len(req.symbols))
       IN  \E max_ret \in Solve("max_ret", "negative_portfolio_return", x0, st,
                                 FrontierBounds, BudgetConstraint, solverLog) :
            /\ target_returns' = Linspace(min_vol_return,
                                          EndpointReturn(max_ret.result, st),
                                          req.num_portfolios)
            /\ solverLog' = Append(solverLog, max_ret.entry)
    /\ pc' = "gen_sweep"
    /\ UNCHANGED <<req, price_data, result, raised, optimized, min_vol_return,
                   efficient_frontier, generated, response, providerLog>>
    /\ UNCHANGED <<aside, risk_free_rate, rng, analysis>>

\* the point appended for a target solve that succeeded
FrontierPoint(x, st) ==
    LET ps == portfolio_stats(x, st)
    IN  [return |-> ps.ret, volatility |-> ps.vol, sharpe_ratio |-> ps.sharpe]

\* the loop keeping only the point of the latest successful solve
AfterSolveOverwriting(frontier, r, st) ==
    IF r.success THEN <<FrontierPoint(r.x, st)>> ELSE frontier

\* what one iteration of the loop does to the list
AfterSolve(frontier, r, st) ==
    IF r.success THEN Append(frontier, FrontierPoint(r.x, st)) ELSE frontier

\* every target solved a second time
TargetSolvesTwice(targets, st, x0) ==
    LET once == [k \in 1..Len(targets) |->
                    Minimize("portfolio_volatility", x0, st, FrontierBounds,
                             ConstraintsWithReturn(targets[k]))]
    IN  SubSeq(once \o once, 1, 2 * Len(targets))

\* the minimize call of each iteration of for target_return in target_returns
TargetSolves(targets, st, x0) ==
    SubSeq([k \in 1..Len(targets) |->
               Minimize("portfolio_volatility", x0, st, FrontierBounds,
                        ConstraintsWithReturn(targets[k]))],
           1, Len(targets))

\* one iteration of the loop: the lists and logs it can leave
SweepStep(all, frontier, log, st, x0) ==
    {[frontier |-> AfterSolve(frontier, o.result, st), log |-> Append(log, o.entry)] :
        o \in Outcomes("target", x0, FrontierBounds, all, log)}

RECURSIVE Sweep(_, _, _, _, _)
\* the whole loop, solves being those of the iterations still to come
Sweep(solves, frontier, log, st, x0) ==
    IF solves = << >> THEN {[frontier |-> frontier, log |-> log]}
    ELSE UNION {Sweep(Tail(solves), o.frontier, o.log, st, x0) :
                    o \in SweepStep(Head(solves), frontier, log, st, x0)}

\* generate_efficient_frontier: efficient_frontier = [] and the loop
GenSweep ==
    /\ pc = "gen_sweep"
    /\ LET st == calculate_returns_and_cov(price_data)
           x0 == InitialGuess(Len(req.symbols))
       IN  \E o \in Sweep(TargetSolves(target_returns, st, x0), << >>, solverLog, st, x0) :
            /\ efficient_frontier' = o.frontier
            /\ solverLog' = o.log
    /\ pc' = "gen_return"
    /\ UNCHANGED <<req, price_data, result, raised, optimized, min_vol_return,
                   target_returns, generated, response, providerLog>>
    /\ UNCHANGED <<aside, risk_free_rate, rng, analysis>>

\* generate_efficient_frontier raising from its except branch, as
\* optimize_portfolio does
GenerateOutcomeRaising(exc, frontier) ==
    IF exc = "none"
    THEN [returned |-> TRUE, propagated |-> FALSE, points |-> frontier]
    ELSE [returned |-> TRUE, propagated |-> TRUE, points |-> << >>]

\* what generate_efficient_frontier hands to its caller: the list, or the
\* empty list from its except branch
GenerateOutcome(exc, frontier) ==
    IF exc = "none"
    THEN [returned |-> TRUE, propagated |-> FALSE, points |-> frontier]
    ELSE [returned |-> TRUE, propagated |-> FALSE, points |-> << >>]

GenReturn ==
    /\ pc = "gen_return"
    /\ generated' = GenerateOutcome(raised, efficient_frontier)
    /\ pc' = "respond"
    /\ UNCHANGED <<req, price_data, result, raised, optimized, min_vol_return,
                   target_returns, efficient_frontier, response, providerLog, solverLog>>
    /\ UNCHANGED <<aside, risk_free_rate, rng, analysis>>

\* the weights passed on as the allocation, not scaled by the amount
DollarAllocationUnscaled(allocation, investment_amount) == allocation

\* dollar_allocation[symbol] = weight * request.investment_amount
DollarAllocation(allocation, investment_amount) ==
    [symbol \in DOMAIN allocation |-> allocation[symbol] * investment_amount]

\* the endpoint builds its response; an exception out of generate would be
\* caught by the endpoint's except Exception
Respond ==
    /\ pc = "respond"
    /\ response' =
        IF req.endpoint = "generate" THEN NoResponse
        ELSE IF generated.propagated
        THEN ErrorResponse(500, "failed")
        ELSE IF req.endpoint = "optimize"
        THEN [status |-> 200, detail |-> "", weights |-> optimized.weights,
              allocation |-> DollarAllocation(optimized.allocation, req.investment_amount),
              efficient_frontier |-> generated.points]
        ELSE [status |-> 200, detail |-> "success", weights |-> << >>,
              allocation |-> << >>, efficient_frontier |-> generated.points]
    /\ pc' = "done"
    /\ UNCHANGED <<req, price_data, result, raised, optimized, min_vol_return,
                   target_returns, efficient_frontier, generated, providerLog, solverLog>>
    /\ UNCHANGED <<aside, risk_free_rate, rng, analysis>>

\* ----------------------------------------------------- analyze_portfolio
\* what a client can send as weights next to the symbols: nothing, or a list
NoWeights == << >>
WeightInputs == {NoWeights, <<One>>, <<150, 90>>}

\* GET /api/portfolio-analysis/{symbols} arrives: the handler has the one
\* parameter symbols; any weights the client sends stay in the request
ReceiveAnalysis ==
    \E symbol_list \in SymbolLists \ {<< >>}, weights \in WeightInputs :
        Fresh([endpoint |-> "analysis", symbols |-> symbol_list,
               investment_amount |-> 0, optimization_method |-> "",
               risk_tolerance |-> "", num_portfolios |-> 0, weights |-> weights],
              "ana_fetch")

\* analyze_portfolio: price_data = optimizer.get_historical_data(symbol_list)
AnaFetch ==
    /\ pc = "ana_fetch"
    /\ \E outcome \in ProviderOutcomes :
        /\ price_data' = get_historical_data(req.symbols, outcome)
        /\ providerLog' = Append(providerLog, outcome)
        /\ rng' = GeneratorAfter(outcome, rng)
    /\ pc' = "ana_compute"
    /\ UNCHANGED <<req, result, raised, optimized, min_vol_return, target_returns,
                   efficient_frontier, generated, response, solverLog>>
    /\ UNCHANGED <<aside, risk_free_rate, analysis>>

\* the position of a symbol among the columns of the frame
ColumnOf(symbol, columns) == CHOOSE i \in 1..Len(columns) : columns[i] = symbol

\* asset_metrics[symbol]: expected_return, volatility and sharpe_ratio of one
\* asset, in percent
AssetMetrics(st, i) ==
    LET ret == IF st.meanOk THEN Num(st.mean[i]) ELSE NaN
        vol == IF st.covOk THEN Num(ISqrt(st.var[i])) ELSE NaN
        excess == IF IsNum(ret) THEN Num(ret.v - risk_free_rate) ELSE NaN
    IN  [expected_return |-> ret, volatility |-> vol, sharpe_ratio |-> FloatDiv(excess, vol)]

\* the response body is rendered as JSON with allow_nan=False: a nan or an
\* infinity in the metrics or in the matrices makes the rendering raise.  The
\* correlation of a series of variance 0 is nan.
Renderable(metrics, st) ==
    /\ st.meanOk /\ st.covOk
    /\ \A i \in 1..st.n : st.var[i] > 0
    /\ \A s \in DOMAIN metrics :
          IsNum(metrics[s].expected_return) /\ IsNum(metrics[s].volatility)
              /\ IsNum(metrics[s].sharpe_ratio)

\* analyze_portfolio: statistics, correlation matrix, the metrics of every
\* symbol that is a column of the frame, and the response
AnaCompute ==
    /\ pc = "ana_compute"
    /\ LET st == calculate_returns_and_cov(price_data)
           asset_metrics ==
               [symbol \in Range(req.symbols) \cap Range(price_data.columns) |->
                   AssetMetrics(st, ColumnOf(symbol, price_data.columns))]
       IN  /\ analysis' = [built |-> TRUE, asset_metrics |-> asset_metrics]
           /\ response' = IF Renderable(asset_metrics, st)
                          THEN [status |-> 200, detail |-> "success", weights |-> << >>,
                                allocation |-> << >>, efficient_frontier |-> << >>]
                          ELSE ErrorResponse(500, "Internal Server Error")
    /\ pc' = "done"
    /\ UNCHANGED <<req, price_data, result, raised, optimized, min_vol_return,
                   target_returns, efficient_frontier, generated, providerLog, solverLog>>
    /\ UNCHANGED <<aside, risk_free_rate, rng>>

Next ==
    \/ ReceiveOptimize
    \/ ReceiveFrontier
    \/ CallGenerate
    \/ OptFetch
    \/ OptSolve
    \/ OptReturn
    \/ GenFetch
    \/ GenMinVol
    \/ GenMaxRet
    \/ GenSweep
    \/ GenReturn
    \/ Respond
    \/ ReceiveAnalysis
    \/ AnaFetch
    \/ AnaCompute
    \/ Complete

Spec == Init /\ [][Next]_vars

\* ------------------------------------------------ repeated optimize calls
\* the optimize requests that are sent again: every symbol once, the two
\* objectives with an inner optimum, the default tolerance
RepeatedLists == {<<"A", "B", "C">>}
RepeatedMethodsAndRisks == {<<"sharpe", "moderate">>, <<"min_volatility", "moderate">>}

ReceiveRepeated == ReceiveOptimizeFrom(RepeatedLists, {1000}, RepeatedMethodsAndRisks)

\* what an optimize call was given and what it returned
Observed ==
    [seen |-> TRUE, symbols |-> req.symbols,
     statistics |-> calculate_returns_and_cov(price_data),
     method |-> req.optimization_method, risk_tolerance |-> req.risk_tolerance,
     generator |-> rng, weights |-> optimized.weights]

\* the first returning optimize call that is kept for comparison
Observe ==
    /\ pc = "gen_fetch" /\ req.endpoint = "optimize" /\ optimized.returned
    /\ ~earlier.seen
    /\ earlier' = Observed
    /\ UNCHANGED <<service, collector, risk_free_rate, rng, pc, req, price_data, result,
                   raised, optimized, min_vol_return, target_returns, efficient_frontier,
                   generated, response, analysis, providerLog, solverLog>>

NextRepeat ==
    \/ ReceiveRepeated
    \/ ReceiveAnalysis
    \/ OptFetch
    \/ OptSolve
    \/ OptReturn
    \/ Observe
    \/ GenFetch
    \/ GenMinVol
    \/ GenMaxRet
    \/ GenSweep
    \/ GenReturn
    \/ Respond
    \/ AnaFetch
    \/ AnaCompute
    \/ Complete

SpecRepeat == Init /\ [][NextRepeat]_vars

\* ------------------------------------------------------- the chat handler
\* the variables of the optimizer endpoints, which the database handlers leave
\* alone; drawing the retry jitter moves the global generator along its
\* sequence and leaves its seed, which is all that rng records
optimizerVars == <<earlier, risk_free_rate, rng, pc, req, price_data, result, raised,
                   optimized, min_vol_return, target_returns, efficient_frontier,
                   generated, response, analysis, providerLog, solverLog, collector>>

HistoryLimit == 10          \* .limit(10)
ContextMessages == 6        \* chat_history[-6:]
max_retries == 3            \* max_retries = 3
base_delay == 2             \* base_delay = 2.0
ShortDelay == 1             \* await asyncio.sleep(1)

\* session ids: none (None or the empty string, both falsy at "or"), one the
\* client sent, or the n-th uuid4 the process drew
NoSession == [src |-> "none", id |-> 0]
ClientSessions == {[src |-> "client", id |-> 1]}
Uuid4(n) == [src |-> "uuid4", id |-> n]
SessionInputs == {NoSession} \cup ClientSessions
\* the text of the n-th request the server takes: every request has its own
MessageOf(n) == "question " \o ToString(n)

SystemPrompt == "You are FinanceBot Pro"
ModelText == "model advice"
HighDemandReply == "I'm experiencing high demand right now"
ApologyReply == "I apologize, but I'm having trouble processing your request"
GreetingReply == "Hello! I'm FinanceBot Pro"
FallbackReply == "I'm experiencing some technical difficulties"

\* what an await of a database operation can do
DbOutcomes == {"ok", "raised"}

\* str(api_error) is kept character by character, for the tests "in" makes
Upper == <<"A", "B", "C", "D", "E", "F", "G", "H", "I", "J", "K", "L", "M",
           "N", "O", "P", "Q", "R", "S", "T", "U", "V", "W", "X", "Y", "Z">>
Lowercase == <<"a", "b", "c", "d", "e", "f", "g", "h", "i", "j", "k", "l", "m",
               "n", "o", "p", "q", "r", "s", "t", "u", "v", "w", "x", "y", "z">>

\* str.lower()
Lower(str) ==
    [i \in DOMAIN str |->
        IF \E k \in DOMAIN Upper : Upper[k] = str[i]
        THEN Lowercase[CHOOSE k \in DOMAIN Upper : Upper[k] = str[i]]
        ELSE str[i]]

\* sub in str
In(sub, str) ==
    \E i \in 0..(Len(str) - Len(sub)) : SubSeq(str, i + 1, i + Len(sub)) = sub

\* the messages of the exceptions a model call raises: rate limiting by the
\* status code, by the phrase and by a capitalised word; a dropped
\* connection; a server error that is not rate limiting; and the exception
\* the handler raises itself for an empty output (line 360)
StatusCodeError == <<"E", "r", "r", "o", "r", " ", "c", "o", "d", "e", ":", " ", "4", "2", "9">>
TooManyError == <<"T", "o", "o", " ", "M", "a", "n", "y", " ", "R", "e", "q", "u", "e", "s", "t", "s">>
RateWordError == <<"R", "a", "t", "e", " ", "l", "i", "m", "i", "t", " ", "r", "e", "a", "c", "h", "e", "d">>
ConnectionError == <<"C", "o", "n", "n", "e", "c", "t", "i", "o", "n", " ", "e", "r", "r", "o", "r", ".">>
ServerError == <<"F", "a", "i", "l", "e", "d", " ", "t", "o", " ", "g", "e", "n", "e", "r", "a", "t", "e">>
EmptyResponseError == <<"E", "m", "p", "t", "y", " ", "r", "e", "s", "p", "o", "n", "s", "e", " ", "f", "r", "o", "m", " ", "A", "I", " ", "m", "o", "d", "e", "l">>

\* the exceptions that are rate limiting, and those that are not
RateLimitErrors == {StatusCodeError, TooManyError, RateWordError}
OtherErrors == {ConnectionError, ServerError}

\* str.strip() of the texts the model streams
Blank == "  "
Strip(text) == IF text = Blank THEN "" ELSE text

\* what one call of the model API does: it streams a text (non-empty, empty,
\* or blank) or raises
ApiOutcomes ==
    {[raised |-> FALSE, text |-> t, error |-> << >>] : t \in {ModelText, "", Blank}}
    \cup {[raised |-> TRUE, text |-> "", error |-> e] : e \in RateLimitErrors \cup OtherErrors}

\* "429" in error_str or "Too Many Requests" in error_str or "rate" in error_str.lower()
IsRateLimit(error_str) ==
    \/ In(<<"4", "2", "9">>, error_str)
    \/ In(<<"T", "o", "o", " ", "M", "a", "n", "y", " ", "R", "e", "q", "u", "e", "s", "t", "s">>, error_str)
    \/ In(<<"r", "a", "t", "e">>, Lower(error_str))

\* the messages a call can end with that line 368 takes for rate limiting
RateLimited ==
    {error_str \in RateLimitErrors \cup OtherErrors \cup {EmptyResponseError} :
        IsRateLimit(error_str)}

NoReply == [status |-> 0]

Front(seq) == SubSeq(seq, 1, Len(seq) - 1)
Last(seq) == seq[Len(seq)]
Min(a, b) == IF a <= b THEN a ELSE b

RECURSIVE InsertByTimestamp(_, _)
InsertByTimestamp(sorted, doc) ==
    IF sorted = << >> THEN <<doc>>
    ELSE IF Last(sorted).timestamp <= doc.timestamp THEN Append(sorted, doc)
    ELSE Append(InsertByTimestamp(Front(sorted), doc), Last(sorted))

RECURSIVE SortByTimestamp(_)
\* .sort("timestamp", 1): ascending, documents of equal timestamp staying in
\* insertion order
SortByTimestamp(docs) ==
    IF docs = << >> THEN << >>
    ELSE InsertByTimestamp(SortByTimestamp(Front(docs)), Last(docs))

\* db.chat_history.find({"session_id": session_id}).sort("timestamp", 1)
FindSession(collection, session_id) ==
    LET Match(doc) == doc.session_id = session_id
    IN  SortByTimestamp(SelectSeq(collection, Match))

\* the messages list of the model call: system prompt, the last 6 of the
\* first 10 documents found, the current message
BuildMessages(collection, session_id, message) ==
    LET found == FindSession(collection, session_id)
        limited == SubSeq(found, 1, Min(HistoryLimit, Len(found)))
        first == IF Len(limited) > ContextMessages
                 THEN Len(limited) - ContextMessages + 1 ELSE 1
        recent == SubSeq(limited, first, Len(limited))
    IN  <<[role |-> "system", content |-> SystemPrompt]>>
        \o [i \in 1..Len(recent) |->
               [role |-> IF recent[i].role = "user" THEN "user" ELSE "assistant",
                content |-> recent[i].content]]
        \o <<[role |-> "user", content |-> message]>>

\* insert_many given the user message alone
ChatDocumentsUserOnly(session_id, message, response_text, now) ==
    <<[session_id |-> session_id, role |-> "user", content |-> message,
       timestamp |-> now]>>

\* the two documents of insert_many: their two datetime.utcnow() fall in one
\* tick of the clock, the store keeping milliseconds
ChatDocuments(session_id, message, response_text, now) ==
    <<[session_id |-> session_id, role |-> "user", content |-> message,
       timestamp |-> now],
      [session_id |-> session_id, role |-> "assistant", content |-> response_text,
       timestamp |-> now]>>

\* session_id = chat_request.session_id or str(uuid.uuid4())
SessionOr(given, fresh) == IF given # NoSession THEN given ELSE fresh

\* a request is taken on the first free connection, up to a number of requests
TakeUpTo(c, h, limit) ==
    /\ handler[c] = Idle
    /\ \A d \in 1..(c - 1) : handler[d] # Idle
    /\ received < limit
    /\ received' = received + 1
    /\ handler' = [handler EXCEPT ![c] = h]

Take(c, h) == TakeUpTo(c, h, MaxRequests)

\* the response went out: the connection is free again
Release(c) ==
    /\ handler[c].pc = "done"
    /\ handler' = [handler EXCEPT ![c] = Idle]
    /\ UNCHANGED <<chat_history, portfolios, clock, uuids, received, chatLog>>
    /\ UNCHANGED optimizerVars

\* POST /api/chat arrives: session_id is set (line 304) and find is awaited
ReceiveChatFrom(c, sessions, limit) ==
    \E given \in sessions :
        /\ TakeUpTo(c, [kind |-> "chat", pc |-> "find", message |-> MessageOf(received + 1),
                    given |-> given, session_id |-> SessionOr(given, Uuid4(uuids + 1)),
                    messages |-> << >>, attempt |-> 0, calls |-> 0, waits |-> << >>,
                    cause |-> "none", response_text |-> ""], limit)
        /\ uuids' = IF given = NoSession THEN uuids + 1 ELSE uuids
        /\ UNCHANGED <<chat_history, portfolios, clock, chatLog>>
        /\ UNCHANGED optimizerVars

ReceiveChat(c) == ReceiveChatFrom(c, SessionInputs, MaxRequests)

\* what the outer except still reads of the handler's locals
Excepting(h) == [kind |-> "chat", pc |-> "except", message |-> h.message, given |-> h.given]

\* the handler after its return: the response, until the connection is free
Answered(reply) == [kind |-> "chat", pc |-> "done", reply |-> reply]

\* the find returns and the context is built, or it raises into the outer except
ChatFind(c) ==
    /\ handler[c].kind = "chat" /\ handler[c].pc = "find"
    /\ \E db \in DbOutcomes :
        handler' = [handler EXCEPT ![c] =
            IF db = "ok"
            THEN [@ EXCEPT !.pc = "call",
                           !.messages = BuildMessages(chat_history, handler[c].session_id,
                                                      handler[c].message)]
            ELSE Excepting(@)]
    /\ UNCHANGED <<chat_history, portfolios, clock, uuids, received, chatLog>>
    /\ UNCHANGED optimizerVars

\* delay = base_delay * (2 ** attempt) + np.random.uniform(0, 1)
RECURSIVE Pow2(_)
Pow2(k) == IF k = 0 THEN 1 ELSE 2 * Pow2(k - 1)
\* the backoff without the exponent
BackoffDelayFlat(attempt) == [seconds |-> base_delay, jitter |-> TRUE]
BackoffDelay(attempt) == [seconds |-> base_delay * Pow2(attempt), jitter |-> TRUE]

\* the rate-limiting branch sleeping once more after the last attempt
MayRetryOnceMore(attempt) == attempt <= max_retries

\* if attempt < max_retries
MayRetry(attempt) == attempt < max_retries

\* what the call just made really was: fine, rate limited, or failed otherwise
\* (an empty output included); history, not read by the handler
Cause(outcome) ==
    IF ~outcome.raised
    THEN IF Strip(outcome.text) # "" THEN "none" ELSE "other"
    ELSE IF outcome.error \in RateLimitErrors THEN "rate" ELSE "other"

\* one pass of the retry loop after an outcome of the model call: break with
\* a reply text (to the save; messages is not read again), or sleep and continue
AfterAttempt(h, outcome) ==
    LET called == [h EXCEPT !.calls = @ + 1, !.cause = Cause(outcome)]
        ended == [called EXCEPT !.messages = << >>, !.pc = "save"]
        error_str == IF outcome.raised THEN outcome.error ELSE EmptyResponseError
    IN  IF ~outcome.raised /\ Strip(outcome.text) # ""
        THEN [ended EXCEPT !.response_text = outcome.text]
        ELSE IF error_str \in RateLimited
        THEN IF MayRetry(h.attempt)
             THEN [called EXCEPT !.waits = Append(@, BackoffDelay(h.attempt)),
                                 !.attempt = @ + 1, !.pc = "sleep"]
             ELSE [ended EXCEPT !.response_text = HighDemandReply]
        ELSE IF h.attempt = 0
             THEN [called EXCEPT !.waits = Append(@, [seconds |-> ShortDelay, jitter |-> FALSE]),
                                 !.attempt = @ + 1, !.pc = "sleep"]
             ELSE [ended EXCEPT !.response_text = ApologyReply]

\* for attempt in range(max_retries + 1): the model call and what follows it
ChatCallFrom(c, outcomes) ==
    /\ handler[c].kind = "chat" /\ handler[c].pc = "call"
    /\ \E outcome \in outcomes :
        handler' = [handler EXCEPT ![c] = AfterAttempt(@, outcome)]
    /\ UNCHANGED <<chat_history, portfolios, clock, uuids, received, chatLog>>
    /\ UNCHANGED optimizerVars

ChatCall(c) == ChatCallFrom(c, ApiOutcomes)

\* await asyncio.sleep(delay) is over: continue
ChatWake(c) ==
    /\ handler[c].kind = "chat" /\ handler[c].pc = "sleep"
    /\ handler' = [handler EXCEPT ![c].pc = "call"]
    /\ UNCHANGED <<chat_history, portfolios, clock, uuids, received, chatLog>>
    /\ UNCHANGED optimizerVars

\* if not response_text or not response_text.strip()
EnsureResponse(response_text) ==
    IF response_text = "" \/ Strip(response_text) = "" THEN GreetingReply ELSE response_text

\* the chat endpoint answering its error with an HTTP error, as the other
\* endpoints do
ChatReplyRaising(response_text, session_id) ==
    IF response_text = FallbackReply
    THEN [status |-> 500, response |-> "", session_id |-> NoSession]
    ELSE [status |-> 200, response |-> response_text, session_id |-> session_id]

\* return ChatResponse(response=..., session_id=...)
ChatReply(response_text, session_id) ==
    [status |-> 200, response |-> response_text, session_id |-> session_id]

\* what chatLog keeps of a chat request that returned
Returned(h, reply, stored) ==
    [message |-> h.message, given |-> h.given, reply |-> reply, stored |-> stored]

\* the save of the normal path and the return, or the insert raises
ChatSave(c) ==
    /\ handler[c].kind = "chat" /\ handler[c].pc = "save"
    /\ LET h == handler[c]
           text == EnsureResponse(h.response_text)
           reply == ChatReply(text, h.session_id)
       IN  \E db \in DbOutcomes :
            IF db = "ok"
            THEN /\ chat_history' = chat_history
                                      \o ChatDocuments(h.session_id, h.message, text, clock + 1)
                 /\ clock' = clock + 1
                 /\ handler' = [handler EXCEPT ![c] = Answered(reply)]
                 /\ chatLog' = Append(chatLog, Returned(h, reply, TRUE))
            ELSE /\ handler' = [handler EXCEPT ![c] = Excepting(h)]
                 /\ UNCHANGED <<chat_history, clock, chatLog>>
    /\ UNCHANGED <<portfolios, uuids, received>>
    /\ UNCHANGED optimizerVars

\* the except path returning a newly drawn id
ReturnedSessionIdFresh(session_id, fresh) == fresh

\* session_id or str(uuid.uuid4()) of the last return
ReturnedSessionId(session_id, fresh) == SessionOr(session_id, fresh)

\* except Exception: the fallback reply, the session id set again, one more
\* insert whose failure is passed over, and the return
ChatExcept(c) ==
    /\ handler[c].kind = "chat" /\ handler[c].pc = "except"
    /\ LET h == handler[c]
           drawn == IF h.given = NoSession THEN 1 ELSE 0
           session_id == SessionOr(h.given, Uuid4(uuids + 1))
           reply == ChatReply(FallbackReply,
                              ReturnedSessionId(session_id, Uuid4(uuids + drawn + 1)))
       IN  /\ uuids' = uuids + drawn
           /\ \E db \in DbOutcomes :
                /\ IF db = "ok"
                   THEN /\ chat_history' = chat_history
                               \o ChatDocuments(session_id, h.message, FallbackReply, clock + 1)
                        /\ clock' = clock + 1
                   ELSE UNCHANGED <<chat_history, clock>>
                /\ chatLog' = Append(chatLog, Returned(h, reply, db = "ok"))
           /\ handler' = [handler EXCEPT ![c] = Answered(reply)]
    /\ UNCHANGED <<portfolios, received>>
    /\ UNCHANGED optimizerVars

\* ------------------------------------------- chat history and portfolios
\* the session ids a client can ask the history of
KnownSessions == ClientSessions \cup {Uuid4(n) : n \in 1..uuids}

\* GET /api/chat-history/{session_id} arrives and the find is awaited
ReceiveHistory(c) ==
    \E session_id \in KnownSessions :
        /\ Take(c, [kind |-> "history", pc |-> "find", session_id |-> session_id,
                    reply |-> NoReply])
        /\ UNCHANGED <<chat_history, portfolios, clock, uuids, chatLog>>
        /\ UNCHANGED optimizerVars

\* cleaned_messages: role, content and timestamp of every message found
CleanedMessages(found) ==
    [i \in 1..Len(found) |->
        [role |-> found[i].role, content |-> found[i].content,
         timestamp |-> found[i].timestamp]]

\* get_chat_history: the messages of the session, or HTTPException(500)
HistoryFind(c) ==
    /\ handler[c].kind = "history" /\ handler[c].pc = "find"
    /\ \E db \in DbOutcomes :
        handler' = [handler EXCEPT ![c] =
            [@ EXCEPT !.pc = "done",
                      !.reply = IF db = "ok"
                                THEN [status |-> 200,
                                      data |-> CleanedMessages(
                                                  FindSession(chat_history, handler[c].session_id))]
                                ELSE [status |-> 500, data |-> << >>]]]
    /\ UNCHANGED <<chat_history, portfolios, clock, uuids, received, chatLog>>
    /\ UNCHANGED optimizerVars

UserIds == {"ann", "bob"}

\* the portfolio get_portfolio creates for a user that has none
DefaultPortfolio(user_id) ==
    [user_id |-> user_id, assets |-> <<"AAPL", "GOOGL", "MSFT">>, total_value |-> 872725]

\* the body of POST /api/portfolio with the defaults of the Portfolio model
PostedPortfolio(user_id) == [user_id |-> user_id, assets |-> << >>, total_value |-> 0]

\* the documents of a user, in insertion order
PortfoliosOf(collection, user_id) ==
    LET Match(doc) == doc.user_id = user_id
    IN  SelectSeq(collection, Match)

\* POST /api/portfolio arrives and insert_one is awaited
ReceiveCreatePortfolio(c) ==
    \E user_id \in UserIds :
        /\ Take(c, [kind |-> "create_portfolio", pc |-> "insert", user_id |-> user_id,
                    reply |-> NoReply])
        /\ UNCHANGED <<chat_history, portfolios, clock, uuids, chatLog>>
        /\ UNCHANGED optimizerVars

\* create_portfolio: the document is inserted, or HTTPException(500)
CreatePortfolioInsert(c) ==
    /\ handler[c].kind = "create_portfolio" /\ handler[c].pc = "insert"
    /\ \E db \in DbOutcomes :
        /\ portfolios' = IF db = "ok"
                         THEN Append(portfolios, PostedPortfolio(handler[c].user_id))
                         ELSE portfolios
        /\ handler' = [handler EXCEPT ![c] =
              [@ EXCEPT !.pc = "done",
                        !.reply = [status |-> IF db = "ok" THEN 200 ELSE 500,
                                   data |-> << >>]]]
    /\ UNCHANGED <<chat_history, clock, uuids, received, chatLog>>
    /\ UNCHANGED optimizerVars

\* GET /api/portfolio/{user_id} arrives and find_one is awaited; held is
\* history: the documents the store had for the user at that moment
ReceivePortfolio(c) ==
    \E user_id \in UserIds :
        /\ Take(c, [kind |-> "portfolio", pc |-> "find", user_id |-> user_id,
                    held |-> PortfoliosOf(portfolios, user_id), added |-> FALSE,
                    reply |-> NoReply])
        /\ UNCHANGED <<chat_history, portfolios, clock, uuids, chatLog>>
        /\ UNCHANGED optimizerVars

\* get_portfolio: find_one gives the first document of the user and the
\* handler returns it; or it gives None and insert_one is awaited; or it raises
PortfolioFind(c) ==
    /\ handler[c].kind = "portfolio" /\ handler[c].pc = "find"
    /\ \E db \in DbOutcomes :
        LET found == PortfoliosOf(portfolios, handler[c].user_id)
        IN  handler' = [handler EXCEPT ![c] =
                IF db = "raised"
                THEN [@ EXCEPT !.pc = "done", !.reply = [status |-> 500, data |-> << >>]]
                ELSE IF found # << >>
                THEN [@ EXCEPT !.pc = "done", !.reply = [status |-> 200, data |-> found[1]]]
                ELSE [@ EXCEPT !.pc = "insert"]]
    /\ UNCHANGED <<chat_history, portfolios, clock, uuids, received, chatLog>>
    /\ UNCHANGED optimizerVars

\* the default portfolio returned without being inserted
StoreWithDefaultDropped(collection, user_id) == collection

\* await db.portfolios.insert_one(empty_portfolio)
StoreWithDefault(collection, user_id) == Append(collection, DefaultPortfolio(user_id))

\* get_portfolio: the default portfolio is inserted and returned, or the
\* insert raises and the answer is HTTPException(500)
PortfolioInsert(c) ==
    /\ handler[c].kind = "portfolio" /\ handler[c].pc = "insert"
    /\ \E db \in DbOutcomes :
        /\ portfolios' = IF db = "ok"
                         THEN StoreWithDefault(portfolios, handler[c].user_id)
                         ELSE portfolios
        /\ handler' = [handler EXCEPT ![c] =
              IF db = "ok"
              THEN [@ EXCEPT !.pc = "done", !.added = TRUE,
                             !.reply = [status |-> 200,
                                        data |-> DefaultPortfolio(handler[c].user_id)]]
              ELSE [@ EXCEPT !.pc = "done", !.reply = [status |-> 500, data |-> << >>]]]
    /\ UNCHANGED <<chat_history, clock, uuids, received, chatLog>>
    /\ UNCHANGED optimizerVars

\* the outcomes of the model call on the interleaved connections: every kind
\* of answer, and one error of each kind of failure
ServiceOutcomes ==
    {outcome \in ApiOutcomes :
        outcome.raised => outcome.error \in {StatusCodeError, ConnectionError}}

NextService ==
    \/ \E c \in Clients : ReceiveChat(c)
    \/ \E c \in Clients : ChatFind(c)
    \/ \E c \in Clients : ChatCallFrom(c, ServiceOutcomes)
    \/ \E c \in Clients : ChatWake(c)
    \/ \E c \in Clients : ChatSave(c)
    \/ \E c \in Clients : ChatExcept(c)
    \/ \E c \in Clients : ReceiveHistory(c)
    \/ \E c \in Clients : HistoryFind(c)
    \/ \E c \in Clients : ReceiveCreatePortfolio(c)
    \/ \E c \in Clients : CreatePortfolioInsert(c)
    \/ \E c \in Clients : ReceivePortfolio(c)
    \/ \E c \in Clients : PortfolioFind(c)
    \/ \E c \in Clients : PortfolioInsert(c)
    \/ \E c \in Clients : Release(c)

SpecService == Init /\ [][NextService]_vars

\* ------------------------------------------------------- the retry loop
\* chat requests on one connection, one after the other, with every outcome
\* of the model call
NextLoop ==
    \/ ReceiveChat(1)
    \/ ChatFind(1)
    \/ ChatCall(1)
    \/ ChatWake(1)
    \/ ChatSave(1)
    \/ ChatExcept(1)
    \/ Release(1)

SpecLoop == Init /\ [][NextLoop]_vars

\* ------------------------------------------------- the metrics collector
\* max_history of the global collector, scaled from 1000
max_history == MaxHistory

\* the RequestMetrics a caller can pass: durations in milliseconds
RequestInputs ==
    [endpoint : {"/api/chat"}, method : {"GET", "POST"}, status_code : {399, 400},
     duration : {1, 2}, error : {"", "boom"}]

\* deque(maxlen=...).append: the oldest entry leaves a full deque
DequeAppend(deque, item, maxlen) ==
    IF maxlen = 0 THEN << >>
    ELSE IF Len(deque) < maxlen THEN Append(deque, item)
    ELSE Append(Tail(deque), item)

\* f"{metrics.method} {metrics.endpoint}"
EndpointKey(metrics) == metrics.method \o " " \o metrics.endpoint

\* the value a defaultdict gives for a missing key
DefaultStats == [count |-> 0, total_duration |-> 0, avg_duration |-> 0, errors |-> 0]
StatsOf(stats, key) == IF key \in DOMAIN stats THEN stats[key] ELSE DefaultStats
CountOf(counts, key) == IF key \in DOMAIN counts THEN counts[key] ELSE 0

\* d[key] = value on a dict
Assign(d, key, value) == [k \in DOMAIN d \cup {key} |-> IF k = key THEN value ELSE d[k]]

\* a / b on millisecond counts, kept to a thousandth of a millisecond
TrueDiv(a, b) == (a * 1000) \div b

\* a request counted as an error only above 400
IsErrorStatusAbove(status_code) == status_code > 400

\* if metrics.status_code >= 400
IsErrorStatus(status_code) == status_code >= 400

\* the entry of the endpoint after lines 59-64
UpdatedStats(stats, metrics) ==
    LET count == stats.count + 1
        total_duration == stats.total_duration + metrics.duration
    IN  [count |-> count, total_duration |-> total_duration,
         avg_duration |-> TrueDiv(total_duration, count),
         errors |-> IF IsErrorStatus(metrics.status_code) THEN stats.errors + 1
                    ELSE stats.errors]

serverVars == <<earlier, service, risk_free_rate, rng, pc, req, price_data, result, raised,
                optimized, min_vol_return, target_returns, efficient_frontier, generated,
                response, analysis, providerLog, solverLog>>

\* record_request(metrics); record_ai_interaction, the other writer, touches
\* only ai_metrics and error_counts
RecordRequest ==
    /\ Len(recorded) < MaxRecords
    /\ \E metrics \in RequestInputs :
        LET endpoint_key == EndpointKey(metrics)
        IN  /\ request_metrics' = DequeAppend(request_metrics, metrics, max_history)
            /\ endpoint_stats' = Assign(endpoint_stats, endpoint_key,
                                        UpdatedStats(StatsOf(endpoint_stats, endpoint_key),
                                                     metrics))
            /\ error_counts' =
                  IF IsErrorStatus(metrics.status_code) /\ metrics.error # ""
                  THEN Assign(error_counts, metrics.error,
                              CountOf(error_counts, metrics.error) + 1)
                  ELSE error_counts
            /\ recorded' = Append(recorded, metrics)
    /\ UNCHANGED ai_metrics
    /\ UNCHANGED serverVars

\* reset_metrics()
ResetMetrics ==
    /\ request_metrics' = << >>
    /\ ai_metrics' = << >>
    /\ error_counts' = << >>
    /\ endpoint_stats' = << >>
    /\ recorded' = << >>
    /\ UNCHANGED serverVars

NextMetrics ==
    \/ RecordRequest
    \/ ResetMetrics

SpecMetrics == Init /\ [][NextMetrics]_vars

\* ------------------------------------------------ one long conversation
\* chat requests of one client session, one after the other, the model
\* answering each at once
Answering == {[raised |-> FALSE, text |-> ModelText, error |-> << >>]}

ReceiveNextChat == ReceiveChatFrom(1, ClientSessions, MaxChats)

NextSession ==
    \/ ReceiveNextChat
    \/ ChatFind(1)
    \/ ChatCallFrom(1, Answering)
    \/ ChatSave(1)
    \/ ChatExcept(1)
    \/ Release(1)

SpecSession == Init /\ [][NextSession]_vars

\* ----------------------------------------------------------------- claims
OptimizeEntries == {i \in DOMAIN solverLog : solverLog[i].phase = "optimize"}
OptimizeAnswered == pc = "done" /\ req.endpoint = "optimize" /\ response.status = 200

\* C1: whenever optimize returns a result, the returned weights sum to 1, in
\* the function's dict and in the endpoint's response
C1_WeightsSumToOne ==
    /\ optimized.returned => SumSeq(optimized.weights) = One
    /\ OptimizeAnswered => SumSeq(response.weights) = One

C1_Witness ==
    /\ OptimizeAnswered
    /\ Len(response.weights) = 3
    /\ \E i \in 1..3 : response.weights[i] # One \div 3

\* the inclusive bounds the specification gives for a risk tolerance
SpecifiedLower(risk) ==
    IF risk = "conservative" THEN 15 ELSE IF risk = "moderate" THEN 6 ELSE 3
SpecifiedUpper(risk) ==
    IF risk = "conservative" THEN 120 ELSE IF risk = "moderate" THEN 180 ELSE 240

\* C2: whenever optimize returns a result for a conservative, moderate or
\* aggressive request, every weight is inside that tolerance's bounds:
\* [0.05, 0.40], [0.02, 0.60], [0.01, 0.80]
C2_WeightsWithinBounds ==
    (optimized.returned
        /\ req.risk_tolerance \in {"conservative", "moderate", "aggressive"})
    => \A i \in DOMAIN optimized.weights :
        /\ optimized.weights[i] >= SpecifiedLower(req.risk_tolerance)
        /\ optimized.weights[i] <= SpecifiedUpper(req.risk_tolerance)

C2_Witness ==
    /\ optimized.returned
    /\ req.risk_tolerance = "moderate"
    /\ \E i \in DOMAIN optimized.weights : optimized.weights[i] = 180

\* the bounds cannot hold together with the budget constraint
Infeasible(n, lo, hi) == n * lo > One \/ n * hi < One

\* C3: when N x lower_bound > 1 or N x upper_bound < 1, optimize fails before
\* the solver is invoked: the solver is never run on such bounds
C3_NoSolveWhenInfeasible ==
    \A i \in OptimizeEntries :
        ~Infeasible(solverLog[i].n, solverLog[i].lo, solverLog[i].hi)

\* C4: when the solver reports non-convergence, optimize ends in an error and
\* returns no weights, metrics or allocation; a result is returned only when
\* the solver reported success
C4_NoResultWithoutSuccess ==
    /\ (\E i \in OptimizeEntries : ~solverLog[i].success)
        => /\ ~optimized.returned
           /\ optimized = NoOptimized
           /\ (pc = "done" => /\ response.status = 500
                              /\ response.weights = << >>
                              /\ response.allocation = << >>
                              /\ response.efficient_frontier = << >>)
    /\ optimized.returned => \E i \in OptimizeEntries : solverLog[i].success
    /\ OptimizeAnswered => \E i \in OptimizeEntries : solverLog[i].success

C4_Witness ==
    /\ pc = "done"
    /\ response.status = 500
    /\ \E i \in OptimizeEntries : solverLog[i].solvable /\ ~solverLog[i].success

RECURSIVE SumOver(_, _)
SumOver(f, S) ==
    IF S = {} THEN 0
    ELSE LET s == CHOOSE t \in S : TRUE IN f[s] + SumOver(f, S \ {s})

\* C5: in every optimize response, allocation has exactly one entry per
\* requested symbol, each equal to that symbol's weight x investment_amount,
\* and the entries sum to investment_amount
C5_AllocationMatchesWeights ==
    OptimizeAnswered =>
        /\ DOMAIN response.allocation = Range(req.symbols)
        /\ Cardinality(DOMAIN response.allocation) = Len(req.symbols)
        /\ \A i \in 1..Len(req.symbols) :
              response.allocation[req.symbols[i]]
                  = response.weights[i] * req.investment_amount
        /\ SumOver(response.allocation, DOMAIN response.allocation)
              = One * req.investment_amount

C5_Witness ==
    /\ OptimizeAnswered
    /\ Len(req.symbols) = 3
    /\ req.investment_amount = 2500

\* C6: a frontier request that names fewer than 2 symbols is answered with
\* HTTP 400, before any data fetch or solve
C6_FewSymbolsAnswered400 ==
    (pc = "done" /\ req.endpoint = "frontier" /\ Len(req.symbols) < 2)
    => /\ response.status = 400
       /\ providerLog = << >>
       /\ solverLog = << >>

SuccessfulTarget(e) == e.phase = "target" /\ e.success
TargetEntries == {i \in DOMAIN solverLog : solverLog[i].phase = "target"}

\* the points of the solves logged as successful target solves, in log order
PointsOfSuccessfulTargets ==
    LET ok == SelectSeq(solverLog, SuccessfulTarget)
    IN  [i \in 1..Len(ok) |-> FrontierPoint(ok[i].x, calculate_returns_and_cov(price_data))]

\* C7: the sequence generate returns holds exactly one point for each target
\* return whose solve reported success, in target order, and none for a
\* target whose solve failed; its length is at most num_points
C7_OnePointPerSuccessfulTarget ==
    generated.returned =>
        /\ generated.points = PointsOfSuccessfulTargets
        /\ Len(generated.points) <= req.num_portfolios
        /\ Cardinality(TargetEntries) \in {0, req.num_portfolios}

C7_Witness ==
    /\ generated.returned
    /\ Len(generated.points) >= 2
    /\ \E i \in TargetEntries : ~solverLog[i].success
    /\ generated.points[1] # generated.points[2]

\* C8: in every sequence generate returns, the points are in non-decreasing
\* order of return from first to last (the order of the volatilities follows
\* from it on an exact frontier and is not compared on the weight grid)
C8_FrontierSorted ==
    generated.returned =>
        \A i \in 1..(Len(generated.points) - 1) :
            FloatLeq(generated.points[i].return, generated.points[i + 1].return)

\* C9: generate never propagates an error: when a step of it raises, it
\* returns the empty sequence
C9_GenerateNeverRaises ==
    /\ generated.returned =>
          /\ ~generated.propagated
          /\ (raised # "none" => generated.points = << >>)
    /\ (pc \in {"respond", "done"} /\ req.endpoint = "generate") => generated.returned
    /\ (pc = "done" /\ req.endpoint = "frontier" /\ Len(req.symbols) >= 2)
          => response.status = 200

C9_Witness ==
    /\ pc = "done"
    /\ generated.returned
    /\ raised \in {"ValueError", "ZeroDivisionError"}
    /\ solverLog = << >>

\* the provider call raised or returned fewer than two rows
ProviderFailed(outcome) == outcome.raised \/ outcome.rows < 2

\* C10: whenever the provider call fails, by raising or by returning an empty
\* result or too few rows, fetch returns the synthetic matrix: 252 rows for
\* every requested symbol, each starting at price 100
C10_FallbackOnEveryFailure ==
    (pc \in {"opt_solve", "gen_min_vol"} /\ ProviderFailed(providerLog[Len(providerLog)]))
    => /\ price_data.synthetic
       /\ price_data.rows = 252
       /\ price_data.first = 100
       /\ Range(price_data.columns) = Range(req.symbols)

\* C11: for a symbols list of length 1, optimize either rejects the request
\* with an error or returns weights = [1.0]; it never returns a single weight
\* different from 1.0
C11_SingleSymbolRejectedOrWhole ==
    (req.endpoint = "optimize" /\ Len(req.symbols) = 1)
    => /\ optimized.returned => optimized.weights = <<One>>
       /\ pc = "done" => (response.status = 500 \/ response.weights = <<One>>)

C11_Witness ==
    /\ pc = "done"
    /\ req.endpoint = "optimize"
    /\ Len(req.symbols) = 1
    /\ response.status = 500
    /\ \E i \in OptimizeEntries : ~solverLog[i].solvable /\ solverLog[i].n = 1
    /\ price_data.rows = MockRows

\* optimize_portfolio has just returned: price_data is still the frame it used
OptimizeJustReturned == pc = "gen_fetch" /\ req.endpoint = "optimize" /\ optimized.returned

\* the statistics of the equal-weight portfolio (1/N each) on that frame
EqualWeightStats ==
    portfolio_stats(InitialGuess(Len(req.symbols)), calculate_returns_and_cov(price_data))

\* C13: whenever optimize with method sharpe returns a result, its Sharpe
\* ratio is at least the Sharpe ratio of the equal-weight portfolio on the
\* same symbols and statistics
C13_SharpeAtLeastEqualWeight ==
    (OptimizeJustReturned /\ req.optimization_method = "sharpe")
    => FloatLeq(EqualWeightStats.sharpe, optimized.sharpe_ratio)

C13_Witness ==
    /\ OptimizeJustReturned
    /\ req.optimization_method = "sharpe"
    /\ Len(req.symbols) = 3
    /\ IsNum(optimized.sharpe_ratio)
    /\ IsNum(EqualWeightStats.sharpe)
    /\ optimized.sharpe_ratio.v > EqualWeightStats.sharpe.v

\* C14: whenever optimize with method min_volatility returns a result, its
\* volatility is at most the volatility of the equal-weight portfolio on the
\* same inputs
C14_VolatilityAtMostEqualWeight ==
    (OptimizeJustReturned /\ req.optimization_method = "min_volatility")
    => FloatLeq(optimized.volatility, EqualWeightStats.vol)

C14_Witness ==
    /\ OptimizeJustReturned
    /\ req.optimization_method = "min_volatility"
    /\ Len(req.symbols) = 3
    /\ IsNum(optimized.volatility)
    /\ IsNum(EqualWeightStats.vol)
    /\ optimized.volatility.v < EqualWeightStats.vol.v

\* a request to the optimize, frontier or analysis endpoint is being handled
HandlingRequest == pc # "idle" /\ pc # "done"

\* C15: handling an optimize, frontier or analysis request leaves all
\* process-wide state unchanged, the shared optimizer's risk_free_rate and
\* the state of the process-global random generator included
C15_RequestsLeaveProcessStateUnchanged ==
    [][HandlingRequest => (risk_free_rate' = risk_free_rate /\ rng' = rng)]_vars

\* the weights sent with an analysis request are of the wrong length or do
\* not sum to 1 within 0.01
InvalidWeights(weights, symbols) ==
    /\ weights # NoWeights
    /\ \/ Len(weights) # Len(symbols)
       \/ SumSeq(weights) - One > 3
       \/ One - SumSeq(weights) > 3

\* C16: portfolio analysis rejects as a client input error, before any
\* computation, a weights list whose length differs from the symbol count or
\* whose sum differs from 1 by more than 0.01, and weighs the assets equally
\* when no weights are given
C16_AnalysisValidatesWeights ==
    (pc = "done" /\ req.endpoint = "analysis")
    => IF InvalidWeights(req.weights, req.symbols)
       THEN response.status = 400 /\ providerLog = << >>
       ELSE (req.weights = NoWeights /\ response.status = 200)
            => \A s \in DOMAIN analysis.asset_metrics :
                  /\ "weight" \in DOMAIN analysis.asset_metrics[s]
                  /\ analysis.asset_metrics[s].weight = One \div Len(req.symbols)

\* the call that has just returned was given what the earlier call was given
SameCallAsEarlier ==
    /\ OptimizeJustReturned /\ earlier.seen
    /\ req.symbols = earlier.symbols
    /\ calculate_returns_and_cov(price_data) = earlier.statistics
    /\ req.optimization_method = earlier.method
    /\ req.risk_tolerance = earlier.risk_tolerance

ChatsDone == {c \in Clients : handler[c].kind = "chat" /\ handler[c].pc = "done"}

\* C17: every chat request gets a success response whose response text is
\* non-empty, whatever the model API does and whether or not the database
\* can be read or written; no failure is surfaced as an HTTP error
C17_ChatAlwaysAnswers ==
    /\ \A c \in ChatsDone :
          handler[c].reply.status = 200 /\ handler[c].reply.response # ""
    /\ \A i \in DOMAIN chatLog :
          chatLog[i].reply.status = 200 /\ chatLog[i].reply.response # ""

C17_Witness ==
    \E c \in ChatsDone :
        /\ handler[c].reply.response = FallbackReply
        /\ Len(chatLog) = 2
        /\ chatLog[1].reply.response = HighDemandReply
        /\ ~chatLog[2].stored /\ chatLog[2].reply = handler[c].reply

\* the user documents in the store that carry the text of a logged request
UserDocumentsOf(e) ==
    {k \in DOMAIN chat_history :
        chat_history[k].role = "user" /\ chat_history[k].content = e.message}

RECURSIVE LoggedFor(_, _)
LoggedFor(log, session_id) ==
    IF log = << >> THEN << >>
    ELSE LET rest == LoggedFor(Front(log), session_id)
         IN  IF Last(log).reply.session_id = session_id THEN Append(rest, Last(log)) ELSE rest

\* the user and assistant message of each of the given requests, in order
RECURSIVE Exchanges(_)
Exchanges(entries) ==
    IF entries = << >> THEN << >>
    ELSE Exchanges(Front(entries))
         \o <<[role |-> "user", content |-> Last(entries).message],
              [role |-> "assistant", content |-> Last(entries).reply.response]>>

\* role and content of the messages chat-history gives for a session
HistoryOf(session_id) ==
    LET found == CleanedMessages(FindSession(chat_history, session_id))
    IN  [i \in 1..Len(found) |-> [role |-> found[i].role, content |-> found[i].content]]

WasStored(e) == e.stored

\* what a completed chat-history request answered is the beginning of what
\* the session holds now
HistoryAnswersArePrefixes ==
    \A c \in Clients :
        (handler[c].kind = "history" /\ handler[c].pc = "done"
            /\ handler[c].reply.status = 200)
        => LET data == handler[c].reply.data
               now == HistoryOf(handler[c].session_id)
           IN  /\ Len(data) <= Len(now)
               /\ \A i \in 1..Len(data) :
                     data[i].role = now[i].role /\ data[i].content = now[i].content

PortfoliosDone == {c \in Clients : handler[c].kind = "portfolio" /\ handler[c].pc = "done"}

\* what a successful get_portfolio carries: the requested user's portfolio,
\* which the store holds; the first stored one when the store had one as the
\* request arrived, and then nothing is added
CarriesStoredPortfolio(h) ==
    /\ h.reply.data.user_id = h.user_id
    /\ \E k \in DOMAIN portfolios : portfolios[k] = h.reply.data
    /\ h.held # << >> => (h.reply.data = h.held[1] /\ ~h.added)
    /\ h.added => h.reply.data = DefaultPortfolio(h.user_id)

\* C20: get_portfolio(user_id) always answers success with a portfolio whose
\* user_id is the requested one: the stored portfolio when the store has one
\* for that user, otherwise a default portfolio that it stores before
\* answering, so that a following get_portfolio for the same user returns
\* that stored portfolio and adds nothing
C20_PortfolioAlwaysSuccess ==
    \A c \in PortfoliosDone :
        handler[c].reply.status = 200 /\ CarriesStoredPortfolio(handler[c])

\* C20 as amended: get_portfolio(user_id) answers success whenever its
\* database operations succeed and HTTP 500, having stored nothing, when one
\* of them raises; a success carries a portfolio whose user_id is the
\* requested one: the stored portfolio when the store has one for that user,
\* otherwise a default portfolio that it stores before answering, so that a
\* following get_portfolio for the same user returns that stored portfolio
\* and adds nothing
C20_PortfolioSuccessUnlessDbFails ==
    \A c \in PortfoliosDone :
        /\ handler[c].reply.status \in {200, 500}
        /\ handler[c].reply.status = 200 => CarriesStoredPortfolio(handler[c])
        /\ handler[c].reply.status = 500 => ~handler[c].added

C20_Witness ==
    \E c \in PortfoliosDone :
        /\ handler[c].reply.status = 200
        /\ handler[c].held = <<DefaultPortfolio(handler[c].user_id)>>
        /\ handler[c].reply.data = DefaultPortfolio(handler[c].user_id)
        /\ portfolios = handler[c].held

\* the context the claim describes: the system prompt, the most recent
\* ContextMessages stored messages of the session in chronological order,
\* the current message
MostRecentContext(collection, session_id, message) ==
    LET found == FindSession(collection, session_id)
        first == IF Len(found) > ContextMessages
                 THEN Len(found) - ContextMessages + 1 ELSE 1
        recent == SubSeq(found, first, Len(found))
    IN  <<[role |-> "system", content |-> SystemPrompt]>>
        \o [i \in 1..Len(recent) |-> [role |-> recent[i].role, content |-> recent[i].content]]
        \o <<[role |-> "user", content |-> message]>>

\* C21: the history the chat endpoint places in the model context is the 6
\* most recent stored messages of the session, in chronological order,
\* between the system prompt and the current user message, also for a
\* session that already holds more than 10 stored messages
C21_ContextIsMostRecent ==
    (handler[1].kind = "chat" /\ handler[1].pc = "call")
    => handler[1].messages
          = MostRecentContext(chat_history, handler[1].session_id, handler[1].message)

\* the chat handlers inside or just past the retry loop
InLoop == {c \in Clients : handler[c].kind = "chat"
                            /\ handler[c].pc \in {"call", "sleep", "save"}}
LoopEnded == {c \in InLoop : handler[c].pc = "save"}

\* C22: for any sequence of model-API outcomes the chat retry loop ends after
\* at most 4 model calls and at most 3 waits, and when it ends the reply text
\* is set and non-empty: the model's text, the high-demand reply or the
\* apology reply
C22_LoopBounded ==
    /\ \A c \in InLoop : handler[c].calls <= 4 /\ Len(handler[c].waits) <= 3
    /\ \A c \in LoopEnded :
          /\ handler[c].response_text \in {ModelText, HighDemandReply, ApologyReply}
          /\ handler[c].response_text # "" /\ Strip(handler[c].response_text) # ""

C22_Witness ==
    \E c \in LoopEnded :
        /\ handler[c].calls = 4 /\ Len(handler[c].waits) = 3
        /\ handler[c].response_text = ApologyReply

\* a wait of the given seconds, plus a jitter in [0, 1) when jittered, is
\* over before a wait of the next seconds begins to count
Shorter(wait, next) == wait.seconds + (IF wait.jitter THEN 1 ELSE 0) <= next.seconds

\* C23: a rate-limited attempt number k (0-based) with k < 3 is followed by a
\* wait of 2 * 2^k seconds plus a jitter in [0, 1) and then by another
\* attempt, so successive waits strictly grow; a rate-limited attempt number
\* 3 ends the loop with the high-demand reply and no further call
C23_RateLimitBackoff ==
    \A c \in InLoop :
        LET h == handler[c]
        IN  /\ (h.cause = "rate" /\ h.pc = "sleep") =>
                  /\ h.attempt \in 1..3 /\ h.calls = h.attempt
                  /\ Last(h.waits) = [seconds |-> <<2, 4, 8>>[h.attempt], jitter |-> TRUE]
            /\ (h.cause = "rate" /\ h.pc = "call") =>
                  h.attempt \in 1..3 /\ h.calls = h.attempt /\ Len(h.waits) = h.attempt
            /\ (h.cause = "rate" /\ h.pc = "save") =>
                  h.attempt = 3 /\ h.calls = 4 /\ h.response_text = HighDemandReply
            /\ \A i \in 1..(Len(h.waits) - 1) : Shorter(h.waits[i], h.waits[i + 1])

C23_Witness ==
    \E c \in LoopEnded :
        /\ handler[c].cause = "rate"
        /\ handler[c].response_text = HighDemandReply
        /\ [i \in 1..3 |-> handler[c].waits[i].seconds] = <<2, 4, 8>>

\* C24: a model-call failure that is not rate limiting, an empty model
\* output included, is retried only when it happens on the first attempt,
\* after a 1 second wait; on any later attempt it ends the loop at once with
\* the apology reply, even when fewer than 4 calls were made
C24_OtherFailureRetriedOnce ==
    \A c \in InLoop :
        LET h == handler[c]
        IN  /\ (h.cause = "other" /\ h.pc = "sleep") =>
                  h.calls = 1 /\ h.waits = <<[seconds |-> 1, jitter |-> FALSE]>>
            /\ (h.cause = "other" /\ h.pc = "save") =>
                  h.calls >= 2 /\ h.response_text = ApologyReply

\* the minimize calls of a phase that returned, and the one that raised out
\* of its first evaluation of the objective
EntriesOf(phases) == {i \in DOMAIN solverLog : solverLog[i].phase \in phases}
RaisedInSolver == IF raised = "ValueError" THEN 1 ELSE 0
FrontierPhases == {"min_vol", "max_ret", "target"}
\* the provider queries of the generate call of the request
GenerateQueries == Len(providerLog) - (IF req.endpoint = "optimize" THEN 1 ELSE 0)

EqualWeights(n) == [i \in 1..n |-> One \div n]
FromEqualWeights == \A i \in DOMAIN solverLog : solverLog[i].x0 = EqualWeights(solverLog[i].n)

\* C25: no retries inside the core: one optimize call queries the data
\* provider exactly once and invokes the solver exactly once; one generate
\* call queries the provider exactly once and invokes the solver exactly
\* num_points + 2 times, each from the equal-weight initial guess; a failed
\* solve is never run again
C25_ExactlyOnce ==
    /\ pc = "opt_return" =>
          /\ Len(providerLog) = 1
          /\ Cardinality(EntriesOf({"optimize"})) + RaisedInSolver = 1
    /\ pc = "gen_return" =>
          /\ GenerateQueries = 1
          /\ Cardinality(EntriesOf(FrontierPhases)) + RaisedInSolver = req.num_portfolios + 2
    /\ FromEqualWeights

\* C25 as amended: no retries inside the core: one optimize call queries the
\* data provider exactly once and invokes the solver exactly once, unless the
\* symbol list is empty, when it raises before the solve; one generate call
\* queries the provider exactly once and, unless it ends in its except
\* branch, invokes the solver exactly num_points + 2 times, one per endpoint
\* and one per target; a generate call that ends in its except branch (an
\* empty list, a list with a repeated symbol) has invoked the solver at most
\* once; each solve starts from the equal-weight initial guess and a failed
\* solve is never run again
C25_OnceUnlessRaised ==
    /\ pc = "opt_return" =>
          /\ Len(providerLog) = 1
          /\ Cardinality(EntriesOf({"optimize"})) + RaisedInSolver
                = (IF req.symbols = << >> THEN 0 ELSE 1)
    /\ pc = "gen_return" =>
          /\ GenerateQueries = 1
          /\ IF raised = "none"
             THEN /\ Cardinality(EntriesOf({"min_vol"})) = 1
                  /\ Cardinality(EntriesOf({"max_ret"})) = 1
                  /\ Cardinality(EntriesOf({"target"})) = req.num_portfolios
             ELSE Cardinality(EntriesOf(FrontierPhases)) + RaisedInSolver <= 1
    /\ FromEqualWeights

C25_Witness ==
    /\ pc = "gen_return" /\ raised = "none" /\ req.endpoint = "generate"
    /\ Cardinality(EntriesOf(FrontierPhases)) = req.num_portfolios + 2
    /\ \E i \in EntriesOf({"target"}) : solverLog[i].solvable /\ ~solverLog[i].success

\* the statistics the solver computed at its initial guess in a request that
\* reached a minimize call
StatsAtInitialGuess ==
    portfolio_stats(InitialGuess(Len(req.symbols)), calculate_returns_and_cov(price_data))
Solved == \/ pc = "opt_return" /\ raised = "none"
          \/ pc = "gen_max_ret"

\* C26: portfolio stats defines the Sharpe ratio explicitly when the
\* portfolio volatility is exactly 0: no call of stats, and so no optimize,
\* frontier or analysis request, reaches a division by a volatility of 0
C26_NoDivisionByZero ==
    /\ Solved => StatsAtInitialGuess.vol # Num(0)
    /\ analysis.built =>
          \A symbol \in DOMAIN analysis.asset_metrics :
              analysis.asset_metrics[symbol].volatility # Num(0)

\* an endpoint solve of the generate call failed
EndpointFailed == \E i \in EntriesOf({"min_vol", "max_ret"}) : ~solverLog[i].success
SuccessfulTargets == {i \in EntriesOf({"target"}) : solverLog[i].success}

\* C27: generate sets the range of target returns from the weight vectors of
\* the min-volatility and max-return endpoint solves without checking that
\* those solves succeeded: a failed endpoint solve by itself neither raises
\* an error nor makes the frontier empty, and only the per-target solves are
\* filtered on success
C27_EndpointSolvesUnchecked ==
    (EndpointFailed /\ pc \in {"gen_sweep", "gen_return"}) =>
        /\ raised = "none"
        /\ Len(target_returns) = req.num_portfolios
        /\ calculate_returns_and_cov(price_data).meanOk =>
              \A k \in DOMAIN target_returns : target_returns[k].ok
        /\ pc = "gen_return" =>
              /\ Cardinality(EntriesOf({"target"})) = req.num_portfolios
              /\ Len(efficient_frontier) = Cardinality(SuccessfulTargets)

C27_Witness ==
    /\ pc = "gen_return" /\ EndpointFailed
    /\ efficient_frontier # << >>
    /\ Len(efficient_frontier) = req.num_portfolios

UnrecognisedRisk == req.risk_tolerance \notin {"conservative", "moderate"}
UnrecognisedMethod == req.optimization_method \notin {"sharpe", "min_volatility"}
OptimizeCore == req.endpoint = "optimize" /\ pc = "opt_return"

\* C28: optimize never rejects an unrecognised risk_tolerance or
\* optimization_method: every risk_tolerance other than conservative and
\* moderate gets the aggressive bounds (0.01, 0.80), and every method other
\* than sharpe and min_volatility gets the max_return objective
C28_UnrecognisedFallThrough ==
    /\ (OptimizeCore /\ (UnrecognisedRisk \/ UnrecognisedMethod)) =>
          /\ raised # "none" => Len(Dedup(req.symbols)) # Len(req.symbols) \/ req.symbols = << >>
          /\ raised = "none" => Cardinality(EntriesOf({"optimize"})) = 1
    /\ (OptimizeCore /\ raised = "none") =>
          LET e == solverLog[Len(solverLog)]
              st == calculate_returns_and_cov(price_data)
          IN  /\ UnrecognisedRisk => (e.lo = (One \div 100) /\ e.hi = (One * 80) \div 100)
              /\ UnrecognisedMethod =>
                    result \in Minimize("negative_portfolio_return", e.x0, st,
                                        [lo |-> e.lo, hi |-> e.hi], BudgetConstraint)
    /\ (req.endpoint = "optimize" /\ pc = "done") => response.status \in {200, 500}

C28_Witness ==
    /\ req.endpoint = "optimize" /\ pc = "done" /\ response.status = 200
    /\ req.risk_tolerance = "other"
    /\ \E i \in EntriesOf({"optimize"}) : solverLog[i].hi = 240 /\ solverLog[i].success

\* the default portfolios the store holds for a user
DefaultsOf(user_id) ==
    {k \in DOMAIN portfolios : portfolios[k] = DefaultPortfolio(user_id)}

\* C29: under any interleaving of concurrent get_portfolio calls for the
\* same user_id, the store holds at most one auto-created default portfolio
\* for that user
C29_OneDefaultPerUser == \A user_id \in UserIds : Cardinality(DefaultsOf(user_id)) <= 1

\* the record_request calls since the last reset that had the given key
CallsFor(key) == {i \in DOMAIN recorded : EndpointKey(recorded[i]) = key}
DurationsFor(key) == [i \in 1..Len(recorded) |->
                         IF i \in CallsFor(key) THEN recorded[i].duration ELSE 0]

\* C30: after any sequence of record_request and reset_metrics calls on a
\* MetricsCollector, every endpoint_stats entry has count >= 1, errors <=
\* count and avg_duration = total_duration / count, where count is the number
\* of record_request calls for that key since the last reset and errors the
\* number of those with status_code >= 400, also after more than max_history
\* requests, when request_metrics has evicted the oldest and holds at most
\* max_history entries
C30_EndpointStatsConsistent ==
    /\ DOMAIN endpoint_stats = {EndpointKey(recorded[i]) : i \in DOMAIN recorded}
    /\ \A key \in DOMAIN endpoint_stats :
          LET stats == endpoint_stats[key]
          IN  /\ stats.count >= 1
              /\ stats.errors <= stats.count
              /\ stats.count = Cardinality(CallsFor(key))
              /\ stats.errors
                    = Cardinality({i \in CallsFor(key) : recorded[i].status_code >= 400})
              /\ stats.total_duration = SumSeq(DurationsFor(key))
              /\ stats.avg_duration * stats.count <= stats.total_duration * 1000
              /\ stats.total_duration * 1000 < (stats.avg_duration + 1) * stats.count
    /\ Len(request_metrics) <= max_history
    /\ \A i \in DOMAIN request_metrics :
          request_metrics[i] = recorded[Len(recorded) - Len(request_metrics) + i]

C30_Witness ==
    /\ Len(recorded) > max_history + 1
    /\ Len(request_metrics) = max_history
    /\ \E key \in DOMAIN endpoint_stats :
          /\ endpoint_stats[key].count > max_history
          /\ endpoint_stats[key].errors \in 1..(endpoint_stats[key].count - 1)

====
